---- MODULE Spec2Model ----
(***************************************************************************)
(* json2spark_mapper/schema_mapper.py: the mapping of a JSON Schema        *)
(* document to a Spark StructType.                                         *)
(*                                                                         *)
(* Python values are modelled as follows.                                  *)
(*   dict              a record; `k in d` is  k \in DOMAIN d               *)
(*   properties        a sequence of [key, value] records (a dict keeps    *)
(*                     its insertion order, and its keys are distinct)     *)
(*   required          the set of the names the list holds (the code only  *)
(*                     tests membership)                                   *)
(*   items             [isList |-> FALSE, node |-> n] for a dict,          *)
(*                     [isList |-> TRUE, list |-> s] for a list            *)
(*   JSON number       [floor |-> i, frac |-> b]: the integer i when b is  *)
(*                     FALSE, a number strictly between i and i + 1 when   *)
(*                     b is TRUE                                           *)
(*   Python int        unbounded; TLC's integers are 32 bits wide, so an   *)
(*                     integer n is the pair [hi, lo] with                 *)
(*                     n = hi * Base + lo and 0 <= lo < Base               *)
(*   None              the record None                                     *)
(*   a raised exception  Raise(e); it ends every enclosing call            *)
(*   pyspark types     records tagged with the class name.  pyspark's      *)
(*                     ArrayType and StructField constructors hold         *)
(*                     `assert isinstance(<type>, DataType)`: given None   *)
(*                     they raise AssertionError, unless Python runs with  *)
(*                     assertions stripped (python -O), where they build   *)
(*                     the value around None.  The variable debug is       *)
(*                     Python's __debug__, and both runs are modelled      *)
(***************************************************************************)
EXTENDS Integers, Sequences, FiniteSets, TLC

VARIABLES
    input,      \* the argument of the call
    debug,      \* Python's __debug__: whether assert statements are executed
    called,     \* the function that was called, "nothing" before the call
    result      \* what the call returned or raised

vars == <<input, debug, called, result>>

----------------------------------------------------------------------------
(* Python integers beyond 32 bits *)

Base == 2^16

Big(n) == [hi |-> n \div Base, lo |-> n % Base]

Pred(x) == IF x.lo = 0 THEN [hi |-> x.hi - 1, lo |-> Base - 1]
           ELSE [hi |-> x.hi, lo |-> x.lo - 1]

Succ(x) == IF x.lo = Base - 1 THEN [hi |-> x.hi + 1, lo |-> 0]
           ELSE [hi |-> x.hi, lo |-> x.lo + 1]

Less(x, y) == x.hi < y.hi \/ (x.hi = y.hi /\ x.lo < y.lo)

Leq(x, y) == x = y \/ Less(x, y)

----------------------------------------------------------------------------
(* Python values *)

None == [tag |-> "None"]

Raise(e) == [tag |-> "raise", exc |-> e]

IsRaise(v) == v.tag = "raise"

IntValue(x) == [tag |-> "int", val |-> x]

StringType == [tag |-> "StringType"]
BooleanType == [tag |-> "BooleanType"]
TimestampType == [tag |-> "TimestampType"]
DateType == [tag |-> "DateType"]
NullType == [tag |-> "NullType"]
ByteType == [tag |-> "ByteType"]
ShortType == [tag |-> "ShortType"]
IntegerType == [tag |-> "IntegerType"]
LongType == [tag |-> "LongType"]
DoubleType == [tag |-> "DoubleType"]

ArrayType(elementType) ==
    IF debug /\ elementType = None THEN Raise("AssertionError")
    ELSE [tag |-> "ArrayType", elementType |-> elementType]

StructField(name, dataType, nullable) ==
    IF debug /\ dataType = None THEN Raise("AssertionError")
    ELSE [tag |-> "StructField", name |-> name, dataType |-> dataType,
          nullable |-> nullable]

StructType(fields) == [tag |-> "StructType", fields |-> fields]

\* a faulty int(x): rounds down, as math.floor does
PyInt_Floor(x) == x.floor

\* int(x) of a JSON number: truncation toward zero
PyInt(x) == IF x.frac /\ x.floor.hi < 0 THEN Succ(x.floor) ELSE x.floor

\* a faulty range test: the stop is taken as the last member
InPyRange_StopIncluded(x, r) == Leq(r.start, x) /\ Leq(x, r.stop)

\* x in range(start, stop)
InPyRange(x, r) == Leq(r.start, x) /\ Less(x, r.stop)

----------------------------------------------------------------------------
(* schema_mapper.py *)

byte_type_range == [start |-> Big(-128), stop |-> Big(127 + 1)]

short_type_range == [start |-> Big(-32768), stop |-> Big(32767 + 1)]

int_type_range == [start |-> Big(-2147483647 - 1), stop |-> Succ(Big(2147483647))]

_determine_inclusive_range(value) ==
    LET min0 == IF "minimum" \in DOMAIN value
                THEN IntValue(PyInt(value.minimum)) ELSE None
        min1 == IF "exclusiveMinimum" \in DOMAIN value
                THEN IntValue(Pred(PyInt(value.exclusiveMinimum))) ELSE min0
        max0 == IF "maximum" \in DOMAIN value
                THEN IntValue(PyInt(value.maximum)) ELSE None
        max1 == IF "exclusiveMaximum" \in DOMAIN value
                THEN IntValue(Pred(PyInt(value.exclusiveMaximum))) ELSE max0
    IN  [min |-> min1, max |-> max1, defined |-> min1 # None /\ max1 # None]

_convert_json_int(value) ==
    LET determined_range == _determine_inclusive_range(value)
        min == determined_range.min.val
        max == determined_range.max.val
    IN  IF determined_range.defined
        THEN IF InPyRange(min, byte_type_range) /\ InPyRange(max, byte_type_range)
             THEN ByteType
             ELSE IF InPyRange(min, short_type_range) /\ InPyRange(max, short_type_range)
             THEN ShortType
             ELSE IF InPyRange(min, int_type_range) /\ InPyRange(max, int_type_range)
             THEN IntegerType
             ELSE LongType
        ELSE LongType

\* a faulty variant: a number with bounds is narrowed to FloatType
_convert_json_number_Narrowed(value) ==
    IF {"minimum", "maximum", "exclusiveMinimum", "exclusiveMaximum"} \cap DOMAIN value # {}
    THEN [tag |-> "FloatType"] ELSE DoubleType

_convert_json_number(value) == DoubleType

_convert_json_string(value) ==
    IF "format" \in DOMAIN value
    THEN IF value.format = "date-time" THEN TimestampType
         ELSE IF value.format = "date" THEN DateType
         ELSE StringType
    ELSE StringType

\* a faulty variant: without a `required` list every field counts as required
IsRequired_AbsentMeansAll(key, schema) ==
    IF "required" \in DOMAIN schema THEN key \in schema.required ELSE TRUE

\* line 13: key in schema.get('required', [])
IsRequired(key, schema) ==
    key \in (IF "required" \in DOMAIN schema THEN schema.required ELSE {})

\* lines 46-48: a dict is put into a list
NormalizeItems(items) == IF items.isList THEN items.list ELSE <<items.node>>

RECURSIVE from_json_to_spark(_)
RECURSIVE _map_json_type_to_spark_type(_)
RECURSIVE FieldsLoop(_, _, _)
RECURSIVE ItemsLoop(_, _, _)

\* a faulty variant: each field is put before the ones built so far
FieldsLoop_Prepend(schema, i, fields) ==
    IF i > Len(schema.properties) THEN StructType(fields)
    ELSE LET key == schema.properties[i].key
             value == schema.properties[i].value
             field_type == _map_json_type_to_spark_type(value)
             nullable == ~IsRequired(key, schema)
             field == StructField(key, field_type, nullable)
         IN  IF IsRaise(field_type) THEN field_type
             ELSE IF IsRaise(field) THEN field
             ELSE FieldsLoop(schema, i + 1, <<field>> \o fields)

\* lines 7-23: the loop over properties.items(), from its i-th entry on, with
\* the fields appended so far, and the return that follows it
FieldsLoop(schema, i, fields) ==
    IF i > Len(schema.properties) THEN StructType(fields)
    ELSE LET key == schema.properties[i].key
             value == schema.properties[i].value
             field_type == _map_json_type_to_spark_type(value)
             nullable == ~IsRequired(key, schema)
             field == StructField(key, field_type, nullable)
         IN  IF IsRaise(field_type) THEN field_type
             ELSE IF IsRaise(field) THEN field
             ELSE FieldsLoop(schema, i + 1, Append(fields, field))

from_json_to_spark(schema) ==
    IF "properties" \notin DOMAIN schema THEN Raise("KeyError")
    ELSE FieldsLoop(schema, 1, <<>>)

\* lines 57-60: the body of the loop for one item schema, which gives field_type
\* its new value or raises
ItemType(item_schema) ==
    LET struct == from_json_to_spark(item_schema)
        element == _map_json_type_to_spark_type(item_schema)
    IN  IF "type" \notin DOMAIN item_schema THEN Raise("KeyError")
        ELSE IF item_schema.type = "object"
        THEN IF IsRaise(struct) THEN struct ELSE ArrayType(StructType(struct.fields))
        ELSE IF IsRaise(element) THEN element ELSE ArrayType(element)

\* a faulty variant: the loop is left after the first item schema
ItemsLoop_FirstWins(items_schemas, i, field_type) ==
    IF i > Len(items_schemas) THEN field_type ELSE ItemType(items_schemas[i])

\* a faulty variant: only the last item schema is mapped
ItemsLoop_OnlyLast(items_schemas, i, field_type) ==
    IF i > Len(items_schemas) THEN field_type
    ELSE ItemType(items_schemas[Len(items_schemas)])

\* lines 56-60: the loop over items_schemas, from its i-th entry on, with the
\* value field_type holds so far
ItemsLoop(items_schemas, i, field_type) ==
    IF i > Len(items_schemas) THEN field_type
    ELSE LET item_type == ItemType(items_schemas[i])
         IN  IF IsRaise(item_type) THEN item_type
             ELSE ItemsLoop(items_schemas, i + 1, item_type)

\* a faulty variant: a missing `items` is taken as an empty list
ConvertJsonArray_MissingItemsRaise(value) ==
    IF "items" \in DOMAIN value
    THEN LET items_schemas == NormalizeItems(value.items)
         IN  IF Len(items_schemas) < 1 THEN Raise("Exception")
             ELSE ItemsLoop(items_schemas, 1, None)
    ELSE Raise("Exception")

\* lines 41-60: the array branch
ConvertJsonArray(value) ==
    IF "items" \in DOMAIN value
    THEN LET items_schemas == NormalizeItems(value.items)
         IN  IF Len(items_schemas) < 1 THEN Raise("Exception")
             ELSE ItemsLoop(items_schemas, 1, None)
    ELSE None

_map_json_type_to_spark_type(json_snippet) ==
    LET value == json_snippet
    IN  IF "type" \in DOMAIN json_snippet
        THEN CASE value.type = "string" -> _convert_json_string(value)
               [] value.type = "boolean" -> BooleanType
               [] value.type = "integer" -> _convert_json_int(value)
               [] value.type = "number" -> _convert_json_number(value)
               [] value.type = "array" -> ConvertJsonArray(value)
               [] value.type = "object" ->
                      LET struct == from_json_to_spark(value)
                      IN  IF IsRaise(struct) THEN struct
                          ELSE StructType(struct.fields)
               [] value.type = "null" -> NullType
               [] value.type = "any" -> StringType
               [] OTHER -> Raise("ValueError")
        ELSE IF "anyOf" \in DOMAIN value THEN StringType
        ELSE IF "const" \in DOMAIN value THEN StringType
        ELSE None

----------------------------------------------------------------------------
(* The inputs: JSON Schema nodes, as trees of at most MaxNodes nodes *)

MaxNodes == 4

\* the keys of the properties, in insertion order (which is not the sorted order)
Names == <<"b", "a", "c", "d", "e", "f">>

Leaves ==
    { [type |-> "string"], [type |-> "frobnicate"],
      [anyOf |-> TRUE], [const |-> TRUE], [title |-> "t"] }

Min(a, b) == IF a < b THEN a ELSE b

RECURSIVE Forests(_, _, _)
\* the sequences of k trees holding n nodes in all; sized[m] is the set of the
\* trees of m nodes
Forests(k, n, sized) ==
    IF k = 0 THEN (IF n = 0 THEN {<<>>} ELSE {})
    ELSE UNION { { <<t>> \o f : t \in sized[m], f \in Forests(k - 1, n - m, sized) }
                 : m \in 1..(n - (k - 1)) }

\* the values of the `required` key of an object of k properties: absent, or any
\* subset of its keys
RequiredChoices(k) ==
    { [present |-> FALSE] }
    \cup { [present |-> TRUE, names |-> { Names[i] : i \in req }] : req \in SUBSET (1..k) }

ObjectNode(children, required) ==
    LET properties == [i \in 1..Len(children) |-> [key |-> Names[i], value |-> children[i]]]
    IN  IF required.present
        THEN [type |-> "object", properties |-> properties, required |-> required.names]
        ELSE [type |-> "object", properties |-> properties]

ArrayOfList(children) == [type |-> "array", items |-> [isList |-> TRUE, list |-> children]]

ArrayOfDict(child) == [type |-> "array", items |-> [isList |-> FALSE, node |-> child]]

MaxChildren(n) == Min(n - 1, Len(Names))

\* the trees of n nodes, given those of fewer
NodesOfSize(n, sized) ==
    (IF n = 1 THEN Leaves \cup { [type |-> "array"] }
              ELSE { ArrayOfDict(t) : t \in sized[n - 1] })
    \cup UNION { { ArrayOfList(f) : f \in Forests(k, n - 1, sized) }
                 \cup { ObjectNode(f, required) : f \in Forests(k, n - 1, sized),
                                                  required \in RequiredChoices(k) }
                 : k \in 0..MaxChildren(n) }

RECURSIVE Sized(_)
Sized(n) ==
    IF n = 0 THEN <<>>
    ELSE LET sized == Sized(n - 1) IN Append(sized, NodesOfSize(n, sized))

\* the trees of fewer than MaxNodes nodes, by size
Smaller == Sized(MaxNodes - 1)

\* node is a tree of at most MaxNodes nodes
IsNode(node) ==
    \/ node \in Smaller[1]
    \/ \E n \in 2..MaxNodes :
          \/ \E t \in Smaller[n - 1] : node = ArrayOfDict(t)
          \/ \E k \in 1..MaxChildren(n) : \E f \in Forests(k, n - 1, Smaller) :
                \/ node = ArrayOfList(f)
                \/ \E required \in RequiredChoices(k) : node = ObjectNode(f, required)

----------------------------------------------------------------------------
(* The inputs: nodes without children *)

Absent == [present |-> FALSE]

Present(v) == [present |-> TRUE, value |-> v]

\* node with key set as the choice says
WithKey(node, key, choice) ==
    IF choice.present THEN node @@ (key :> choice.value) ELSE node

Whole(i) == [floor |-> i, frac |-> FALSE]

Fraction(i) == [floor |-> i, frac |-> TRUE]

\* the first and the last integer of each Spark type's range
Edges ==
    { r.start : r \in {byte_type_range, short_type_range, int_type_range} }
    \cup { Pred(r.stop) : r \in {byte_type_range, short_type_range, int_type_range} }

Delta == 1

RECURSIVE Shift(_, _)
Shift(x, d) == IF d = 0 THEN x
               ELSE IF d > 0 THEN Shift(Succ(x), d - 1) ELSE Shift(Pred(x), d + 1)

\* the values of minimum and maximum: the integers within Delta of an edge, 0, and
\* -128.5 and 127.5
Numbers ==
    { Whole(Shift(e, d)) : e \in Edges, d \in (-Delta)..Delta }
    \cup { Whole(Big(0)), Fraction(Big(-129)), Fraction(Big(127)) }

\* the values of exclusiveMinimum and exclusiveMaximum: an edge, an edge plus one
\* (so that the value less one is on either side of the edge), and -127.5
ExclusiveNumbers ==
    { Whole(Shift(e, d)) : e \in Edges, d \in 0..1 } \cup { Fraction(Big(-128)) }

Choices(values) == { Absent } \cup { Present(v) : v \in values }

IsIntegerNode(node) ==
    \E minimum \in Choices(Numbers), maximum \in Choices(Numbers),
       exclusiveMinimum \in Choices(ExclusiveNumbers),
       exclusiveMaximum \in Choices(ExclusiveNumbers) :
        node = WithKey(WithKey(WithKey(WithKey([type |-> "integer"],
                           "minimum", minimum), "maximum", maximum),
                           "exclusiveMinimum", exclusiveMinimum),
                           "exclusiveMaximum", exclusiveMaximum)

ScalarTypes == {"string", "boolean", "integer", "number", "null", "any"}

Formats == {"date-time", "date", "uuid"}

IsScalarNode(node) ==
    \E type \in Choices(ScalarTypes), format \in Choices(Formats),
       anyOf \in Choices({TRUE}), const \in Choices({TRUE}),
       minimum \in Choices({Whole(Big(0))}), maximum \in Choices({Whole(Big(100))}),
       exclusiveMinimum \in Choices({Whole(Big(-1))}),
       exclusiveMaximum \in Choices({Whole(Big(101))}) :
        node = WithKey(WithKey(WithKey(WithKey(WithKey(WithKey(WithKey(WithKey(
                           [title |-> "t"],
                           "type", type), "format", format), "anyOf", anyOf),
                           "const", const), "minimum", minimum), "maximum", maximum),
                           "exclusiveMinimum", exclusiveMinimum),
                           "exclusiveMaximum", exclusiveMaximum)

----------------------------------------------------------------------------
(* The calls *)

Init == /\ (IsNode(input) \/ IsScalarNode(input))
        /\ debug \in BOOLEAN
        /\ called = "nothing"
        /\ result = None

Call_from_json_to_spark ==
    /\ called = "nothing"
    /\ called' = "from_json_to_spark"
    /\ result' = from_json_to_spark(input)
    /\ UNCHANGED <<input, debug>>

Call_map_json_type_to_spark_type ==
    /\ called = "nothing"
    /\ called' = "_map_json_type_to_spark_type"
    /\ result' = _map_json_type_to_spark_type(input)
    /\ UNCHANGED <<input, debug>>

Call_convert_json_int ==
    /\ called = "nothing"
    /\ called' = "_convert_json_int"
    /\ result' = _convert_json_int(input)
    /\ UNCHANGED <<input, debug>>

Call_determine_inclusive_range ==
    /\ called = "nothing"
    /\ called' = "_determine_inclusive_range"
    /\ result' = _determine_inclusive_range(input)
    /\ UNCHANGED <<input, debug>>

Next == Call_from_json_to_spark \/ Call_map_json_type_to_spark_type

Spec == Init /\ [][Next]_vars

InitInt == /\ IsIntegerNode(input)
           /\ debug = TRUE
           /\ called = "nothing"
           /\ result = None

NextInt == Call_convert_json_int \/ Call_determine_inclusive_range

SpecInt == InitInt /\ [][NextInt]_vars

----------------------------------------------------------------------------
(* Properties *)

RequiredOf(node) == IF "required" \in DOMAIN node THEN node.required ELSE {}

ItemsOf(node) == IF node.items.isList THEN node.items.list ELSE <<node.items.node>>

Last(seq) == seq[Len(seq)]

IsType(v) == v.tag \notin {"None", "raise"}

RECURSIVE NullableFollowsParent(_, _)
\* In type, the value the mapping gave for node, every field of every Struct is
\* nullable exactly when its name is not in the `required` of the object node the
\* Struct was built from (an array's element type is built from its last item)
NullableFollowsParent(node, type) ==
    IF "type" \notin DOMAIN node THEN TRUE
    ELSE IF node.type = "object" /\ type.tag = "StructType"
    THEN \A i \in DOMAIN type.fields \cap DOMAIN node.properties :
            /\ type.fields[i].nullable = (type.fields[i].name \notin RequiredOf(node))
            /\ NullableFollowsParent(node.properties[i].value, type.fields[i].dataType)
    ELSE IF node.type = "array" /\ type.tag = "ArrayType"
    THEN NullableFollowsParent(Last(ItemsOf(node)), type.elementType)
    ELSE TRUE

\* C1: in the Struct from_json_to_spark returns, at the root and at every nesting
\* level (nested objects, object items of arrays), a field is nullable exactly when
\* its name is not in the `required` list of its immediate parent node, an absent
\* `required` counting as empty.
C1_NullableIffNotRequired ==
    (called = "from_json_to_spark" /\ result.tag = "StructType")
        => NullableFollowsParent(input, result)

\* A root that requires "b", whose property "b" is an object that has a property
\* "b" of its own and does not require it: the outer field is not nullable, the
\* inner one is.
C1_Witness ==
    /\ called = "from_json_to_spark"
    /\ result.tag = "StructType"
    /\ Len(result.fields) >= 1
    /\ result.fields[1].name = "b"
    /\ "b" \in RequiredOf(input)
    /\ ~result.fields[1].nullable
    /\ result.fields[1].dataType.tag = "StructType"
    /\ Len(result.fields[1].dataType.fields) = 1
    /\ result.fields[1].dataType.fields[1].name = "b"
    /\ "b" \notin RequiredOf(input.properties[1].value)
    /\ result.fields[1].dataType.fields[1].nullable

\* C2: when from_json_to_spark succeeds on an object node of N >= 0 properties, the
\* Struct has exactly N fields, the i-th named as the i-th property and typed as
\* _map_json_type_to_spark_type maps the i-th child; N = 0 gives the Struct of no
\* field, and no error.
C2_FieldsFollowProperties ==
    (called = "from_json_to_spark" /\ "properties" \in DOMAIN input)
        => /\ ~IsRaise(result) =>
                /\ result.tag = "StructType"
                /\ Len(result.fields) = Len(input.properties)
                /\ \A i \in 1..Len(input.properties) :
                      /\ result.fields[i].name = input.properties[i].key
                      /\ result.fields[i].dataType
                            = _map_json_type_to_spark_type(input.properties[i].value)
           /\ Len(input.properties) = 0 => result = [tag |-> "StructType", fields |-> <<>>]

\* Three properties in the order "b", "a", "c": a string, an object and a const.
C2_Witness ==
    /\ called = "from_json_to_spark"
    /\ result.tag = "StructType"
    /\ Len(result.fields) = 3
    /\ <<result.fields[1].name, result.fields[2].name, result.fields[3].name>>
          = <<"b", "a", "c">>
    /\ input.properties[1].value = [type |-> "string"]
    /\ input.properties[2].value = [type |-> "object", properties |-> <<>>]
    /\ input.properties[3].value = [const |-> TRUE]
    /\ result.fields[1].dataType.tag = "StringType"
    /\ result.fields[2].dataType.tag = "StructType"
    /\ result.fields[3].dataType.tag = "StringType"

\* a JSON number is the integer i
IsWhole(x, i) == ~x.frac /\ x.floor = i

\* a JSON number cut to an integer toward zero
Truncated(x) ==
    IF x.frac /\ Less(x.floor, Big(0)) THEN Succ(x.floor) ELSE x.floor

Between(x, first, last) == Leq(first, x) /\ Leq(x, last)

\* the narrowest Spark integer type that holds both min and max
Narrowest(min, max) ==
    IF Between(min, Big(-128), Big(127)) /\ Between(max, Big(-128), Big(127))
    THEN "ByteType"
    ELSE IF Between(min, Big(-32768), Big(32767)) /\ Between(max, Big(-32768), Big(32767))
    THEN "ShortType"
    ELSE IF /\ Between(min, Pred(Big(-2147483647)), Big(2147483647))
            /\ Between(max, Pred(Big(-2147483647)), Big(2147483647))
    THEN "IntegerType"
    ELSE "LongType"

HasMin(node) == {"minimum", "exclusiveMinimum"} \cap DOMAIN node # {}

HasMax(node) == {"maximum", "exclusiveMaximum"} \cap DOMAIN node # {}

\* C3: _convert_json_int gives LongType when the node lacks a lower or an upper
\* bound; with both, it gives the narrowest of ByteType [-128, 127], ShortType
\* [-32768, 32767], IntegerType [-2147483648, 2147483647] and LongType that holds
\* the range's min and its max, whatever their order.
C3_NarrowestIntegerType ==
    called = "_convert_json_int"
        => LET range == _determine_inclusive_range(input)
           IN  result.tag = IF HasMin(input) /\ HasMax(input)
                            THEN Narrowest(range.min.val, range.max.val)
                            ELSE "LongType"

\* The range [-129, 127], one below ByteType's: ShortType.
C3_Witness ==
    /\ called = "_convert_json_int"
    /\ DOMAIN input = {"type", "minimum", "maximum"}
    /\ IsWhole(input.minimum, Big(-129))
    /\ IsWhole(input.maximum, Big(127))
    /\ result = ShortType

\* the bound of the inclusive range that the claim as written gives for an inclusive
\* and an exclusive keyword: a JSON number, or None
ClaimedBound(node, inclusive, exclusive) ==
    IF exclusive \in DOMAIN node
    THEN [floor |-> Pred(node[exclusive].floor), frac |-> node[exclusive].frac]
    ELSE IF inclusive \in DOMAIN node THEN node[inclusive]
    ELSE None

AsNumber(bound) == IF bound = None THEN None ELSE [floor |-> bound.val, frac |-> FALSE]

\* C4 as written: min is `minimum`, or `exclusiveMinimum` - 1 whenever that key is
\* present; max likewise; the range is defined exactly when both are resolved.
C4_BoundsAsWritten ==
    called = "_determine_inclusive_range"
        => /\ AsNumber(result.min) = ClaimedBound(input, "minimum", "exclusiveMinimum")
           /\ AsNumber(result.max) = ClaimedBound(input, "maximum", "exclusiveMaximum")
           /\ result.defined = (result.min # None /\ result.max # None)

\* the bound the code gives: the keyword's value cut to an integer toward zero,
\* less one for an exclusive keyword
TruncatedBound(node, inclusive, exclusive) ==
    IF exclusive \in DOMAIN node
    THEN [tag |-> "int", val |-> Pred(Truncated(node[exclusive]))]
    ELSE IF inclusive \in DOMAIN node
    THEN [tag |-> "int", val |-> Truncated(node[inclusive])]
    ELSE None

IsNodeWith(node, keys) == DOMAIN node = {"type"} \cup keys

\* C4, amended: min is int(`minimum`), the value cut toward zero (the value itself
\* when it is an integer), or int(`exclusiveMinimum`) - 1 whenever that key is
\* present; max likewise; the range is defined exactly when both are resolved.
\* {exclusiveMinimum: -127, maximum: 127} maps to ByteType and
\* {exclusiveMinimum: -128, maximum: 127} to ShortType.
C4_BoundsTruncated ==
    /\ called = "_determine_inclusive_range"
        => /\ result.min = TruncatedBound(input, "minimum", "exclusiveMinimum")
           /\ result.max = TruncatedBound(input, "maximum", "exclusiveMaximum")
           /\ result.defined = (HasMin(input) /\ HasMax(input))
    /\ ( /\ called = "_convert_json_int"
         /\ IsNodeWith(input, {"exclusiveMinimum", "maximum"})
         /\ IsWhole(input.maximum, Big(127)) )
        => /\ IsWhole(input.exclusiveMinimum, Big(-127)) => result = ByteType
           /\ IsWhole(input.exclusiveMinimum, Big(-128)) => result = ShortType

\* All four keywords present, `minimum` being -128.5: the exclusive keywords win,
\* and with `minimum` alone min is -128.
C4_Witness ==
    /\ called = "_determine_inclusive_range"
    /\ IsNodeWith(input, {"minimum", "maximum", "exclusiveMaximum"})
    /\ input.minimum = [floor |-> Big(-129), frac |-> TRUE]
    /\ IsWhole(input.maximum, Big(32767))
    /\ IsWhole(input.exclusiveMaximum, Big(128))
    /\ result = [min |-> [tag |-> "int", val |-> Big(-128)],
                 max |-> [tag |-> "int", val |-> Big(127)], defined |-> TRUE]

HasItems(node) == "type" \in DOMAIN node /\ node.type = "array" /\ "items" \in DOMAIN node

HasTypeOtherThanObject(node) == "type" \in DOMAIN node => node.type # "object"

\* C5, as written: an item that is not of type "object" is mapped as any other node
\* is; an item without `type` but with `anyOf` or `const` gives the element type
\* StringType, and no error.  Stated for the arrays of one item.
C5_ItemsMappedAsAnyNode ==
    (/\ called = "_map_json_type_to_spark_type"
     /\ HasItems(input)
     /\ Len(ItemsOf(input)) = 1
     /\ HasTypeOtherThanObject(ItemsOf(input)[1]))
        => LET item == ItemsOf(input)[1]
               mapped == _map_json_type_to_spark_type(item)
           IN  /\ ("type" \notin DOMAIN item /\ {"anyOf", "const"} \cap DOMAIN item # {})
                     => result = [tag |-> "ArrayType", elementType |-> [tag |-> "StringType"]]
               /\ IsType(mapped) => result = [tag |-> "ArrayType", elementType |-> mapped]
               /\ IsRaise(mapped) => result = mapped

\* the element type the code computes for an item
ElementOf(item) ==
    IF item.type = "object" THEN [tag |-> "StructType", fields |-> from_json_to_spark(item).fields]
    ELSE _map_json_type_to_spark_type(item)

\* C6: for an array node with `items`, a single node as `items` gives what the list
\* of that one node gives; and when the mapping of a list of item schemas succeeds,
\* the result is the ArrayType of the type computed for the last of them.
C6_LastItemWins ==
    (called = "_map_json_type_to_spark_type" /\ HasItems(input))
        => /\ ~input.items.isList
                => result = _map_json_type_to_spark_type(
                                [type |-> "array",
                                 items |-> [isList |-> TRUE, list |-> <<input.items.node>>]])
           /\ (input.items.isList /\ ~IsRaise(result))
                => result = [tag |-> "ArrayType",
                             elementType |-> ElementOf(Last(input.items.list))]

\* A list of two item schemas of different types: the second one's type is kept.
C6_Witness ==
    /\ called = "_map_json_type_to_spark_type"
    /\ HasItems(input)
    /\ input.items.isList
    /\ input.items.list = << [type |-> "object", properties |-> <<>>], [type |-> "string"] >>
    /\ result = [tag |-> "ArrayType", elementType |-> [tag |-> "StringType"]]

KnownTypes == {"string", "boolean", "integer", "number", "array", "object", "null", "any"}

\* the nodes the mapping of node descends into
Children(node) ==
    IF "type" \notin DOMAIN node THEN <<>>
    ELSE IF node.type = "object" /\ "properties" \in DOMAIN node
    THEN [i \in 1..Len(node.properties) |-> node.properties[i].value]
    ELSE IF HasItems(node) THEN ItemsOf(node)
    ELSE <<>>

RECURSIVE HasUnknownType(_)
HasUnknownType(node) ==
    \/ "type" \in DOMAIN node /\ node.type \notin KnownTypes
    \/ \E i \in 1..Len(Children(node)) : HasUnknownType(Children(node)[i])

RECURSIVE HasEmptyItems(_)
HasEmptyItems(node) ==
    \/ HasItems(node) /\ ItemsOf(node) = <<>>
    \/ \E i \in 1..Len(Children(node)) : HasEmptyItems(Children(node)[i])

RECURSIVE HasNoneMapping(_)
\* some node of the tree maps to None: it holds none of `type`, `anyOf`, `const`,
\* or is an array without `items`
HasNoneMapping(node) ==
    \/ {"type", "anyOf", "const"} \cap DOMAIN node = {}
    \/ "type" \in DOMAIN node /\ node.type = "array" /\ "items" \notin DOMAIN node
    \/ \E i \in 1..Len(Children(node)) : HasNoneMapping(Children(node)[i])

\* C7, as written: when a node anywhere in the tree has an unrecognized `type`, or an
\* array node an empty `items` list, from_json_to_spark fails with that error
\* (ValueError for the type, Exception for the empty list), and returns no Struct.
\* Stated for the trees no node of which maps to None.
C7_ErrorsReachTheCaller ==
    (/\ called = "from_json_to_spark"
     /\ "properties" \in DOMAIN input
     /\ ~HasNoneMapping(input)
     /\ HasUnknownType(input) \/ HasEmptyItems(input))
        => /\ IsRaise(result)
           /\ result.exc \in (IF HasUnknownType(input) THEN {"ValueError"} ELSE {})
                             \cup (IF HasEmptyItems(input) THEN {"Exception"} ELSE {})

SparkTypes ==
    { "StringType", "BooleanType", "TimestampType", "DateType", "NullType", "ByteType",
      "ShortType", "IntegerType", "LongType", "DoubleType", "ArrayType", "StructType" }

\* C8: _map_json_type_to_spark_type returns None, raising nothing, exactly for an
\* array node without `items` and for a node with none of `type`, `anyOf`, `const`;
\* whenever else it does not fail, it returns a Spark type.
C8_NoneInTwoCases ==
    called = "_map_json_type_to_spark_type"
        => /\ result = [tag |-> "None"]
                <=> \/ /\ "type" \in DOMAIN input
                       /\ input.type = "array"
                       /\ "items" \notin DOMAIN input
                    \/ {"type", "anyOf", "const"} \cap DOMAIN input = {}
           /\ (result # [tag |-> "None"] /\ ~IsRaise(result)) => result.tag \in SparkTypes

\* The array node without `items`.
C8_Witness ==
    /\ called = "_map_json_type_to_spark_type"
    /\ input = [type |-> "array"]
    /\ result = [tag |-> "None"]

\* the type the table gives for a node that is neither an array nor an object
TableType(node) ==
    IF "type" \in DOMAIN node
    THEN CASE node.type = "string" ->
                  IF "format" \in DOMAIN node /\ node.format = "date-time" THEN "TimestampType"
                  ELSE IF "format" \in DOMAIN node /\ node.format = "date" THEN "DateType"
                  ELSE "StringType"
           [] node.type = "boolean" -> "BooleanType"
           [] node.type = "number" -> "DoubleType"
           [] node.type = "null" -> "NullType"
           [] node.type = "any" -> "StringType"
    ELSE "StringType"

\* C9: _map_json_type_to_spark_type goes by `type` whenever the key is present, and
\* by `anyOf` or `const` only without it: string gives StringType, or TimestampType
\* for the format "date-time" and DateType for "date"; boolean BooleanType; number
\* DoubleType whatever the bounds; null NullType; any StringType; no `type` with
\* `anyOf` or `const` StringType.
C9_DispatchOnType ==
    (/\ called = "_map_json_type_to_spark_type"
     /\ \/ "type" \in DOMAIN input
              /\ input.type \in {"string", "boolean", "number", "null", "any"}
        \/ "type" \notin DOMAIN input /\ {"anyOf", "const"} \cap DOMAIN input # {})
        => result = [tag |-> TableType(input)]

\* A number node that also holds `anyOf`, `const`, a format and all four bounds.
C9_Witness ==
    /\ called = "_map_json_type_to_spark_type"
    /\ {"type", "format", "anyOf", "const", "minimum", "maximum", "exclusiveMinimum",
        "exclusiveMaximum"} \subseteq DOMAIN input
    /\ input.type = "number"
    /\ input.format = "date"
    /\ result = [tag |-> "DoubleType"]

\* C10: in an array node with a list of more than one item schema, an item schema
\* before the last that holds an unrecognized `type` or an empty `items` list makes
\* the whole call fail, whatever the last item schema is.
C10_EveryItemIsMapped ==
    (/\ called = "_map_json_type_to_spark_type"
     /\ HasItems(input)
     /\ input.items.isList
     /\ \E i \in 1..(Len(input.items.list) - 1) :
           HasUnknownType(input.items.list[i]) \/ HasEmptyItems(input.items.list[i]))
        => IsRaise(result)

\* A first item of unknown type before a last item that maps by itself.
C10_Witness ==
    /\ called = "_map_json_type_to_spark_type"
    /\ HasItems(input)
    /\ input.items.isList
    /\ input.items.list = << [type |-> "frobnicate"], [type |-> "string"] >>
    /\ result = [tag |-> "raise", exc |-> "ValueError"]

====
